---- MODULE Spec2Model ----
(***************************************************************************)
(* Knowledge-extraction pipeline of NLD (src/src/pipelines/                *)
(* pipeline_extract.py): the scheduler extract_knowledge_pipeline, the     *)
(* per-item entry process_item, the worker extract_knowledge with its      *)
(* generate_with_retry loop, and the append-and-flush section guarded by   *)
(* output_lock and file_lock.                                              *)
(*                                                                         *)
(* A worker is identified by the index of the input item it runs: a pool   *)
(* thread executes one work item at a time, and at most                    *)
(* args.thread_pool_size items are running at once.                        *)
(***************************************************************************)
EXTENDS Integers, Sequences, FiniteSets, TLC

\* ---------------------------------------------------------------- bounds
MaxItems == 2
MaxWorkers == 2
MaxRetry == 2
MaxDiffLines == 5
MaxTextLen == 5

\* ------------------------------------------------------------ constants
\* The chain has four generation stages (purpose, function, analysis,
\* knowledge extraction).
NumStages == 4

\* Keys an input item is read by.
Keys == {"id", "cve_id", "cve_description", "function_modified_lines",
         "code_before_change", "code_after_change"}

\* Keys read by generate_extract_prompt's call (lines 213-219).
PromptKeys == Keys \ {"id"}

\* Classes of text the capability can return for stage 4.
Stage4Texts == {"json_object", "not_json"}

NoFile == [exists |-> FALSE, wellformed |-> FALSE, recs |-> <<>>]

\* No pure function is under study: the state of call during a pipeline run.
NoCall == [fn |-> "none", arg |-> <<>>, returned |-> FALSE, ret |-> <<>>]

VARIABLES
    args,          \* thread_pool_size, retry_time, resume
    data,          \* the loaded input items
    file,          \* the persistence target data/knowledge/<output_file_name>
    output_data,   \* the shared result buffer
    resume_set,    \* identifiers found in the prior output
    output_lock,   \* 0 when free, else the worker holding it
    file_lock,     \* 0 when free, else the worker holding it
    future,        \* state of each submitted work item
    mainPc,        \* position of the main thread
    wk,            \* per work item: position and locals of its worker
    hist,          \* per work item: observed generation calls (history)
    lastFlush,     \* content written by the last completed flush (history)
    flushes,       \* number of completed flushes of this run (history)
    prior,         \* the persistence target as the run found it (history)
    killed,        \* the process was killed from outside
    call           \* a pure function under study: its argument and result

vars == <<args, data, file, output_data, resume_set, output_lock, file_lock,
          future, mainPc, wk, hist, lastFlush, flushes, prior, killed, call>>

\* ------------------------------------------------------------- helpers
Idx == 1..Len(data)

Item(i, ks) == [id |-> i, cve_id |-> "CVE", keys |-> ks]

HasKey(item, key) == key \in item.keys

RecordIds(recs) == {recs[j].id : j \in 1..Len(recs)}

IsPrefix(p, s) == Len(p) <= Len(s) /\ \A j \in 1..Len(p) : s[j] = p[j]

\* Ascending sequence of the elements of a finite set of integers.
RECURSIVE SortedSeq(_)
SortedSeq(S) ==
    IF S = {} THEN <<>>
    ELSE LET m == CHOOSE x \in S : \A y \in S : x <= y
         IN <<m>> \o SortedSeq(S \ {m})

KnowledgeRecord(i) == [id |-> i, CVE_id |-> "CVE"]

Running == {k \in Idx : future[k] = "running"}

\* Locals of a worker: pc is its position, stage the generation stage it is
\* in (1..4), attempt the loop variable of generate_with_retry, text the class
\* of the stage-4 text it received, outcome how its work item ended, messages
\* the conversation list of lines 230-235.
IdleWk == [pc |-> "idle", stage |-> 0, attempt |-> 0, last_exception |-> "None",
           text |-> "None", outcome |-> "None", messages |-> <<>>]

\* What was observed of the generation capability for one work item:
\* ncalls and nfails count the invocations made and the failures met by the
\* call of generate_with_retry that is in progress or that raised (they start
\* again from 0 when it returns), anyFail / anyOk tell whether some invocation
\* failed / succeeded, hard tells whether every stage that returned did so on
\* exactly its retry_time-th invocation, issued is the stage of the latest
\* invocation (0 before the first), responses the number of stages whose
\* output exists, conv the conversation the latest invocation was given.
\* The errors of one generate_with_retry call are named by the attempt (from
\* 1) that raised them: lastErr is the one held by last_exception, raised the
\* one the call raised (0 for none), sleeps the delays the call has waited.
NoHist == [ncalls |-> 0, nfails |-> 0, anyFail |-> FALSE, anyOk |-> FALSE,
           hard |-> TRUE, issued |-> 0, responses |-> 0, conv |-> <<>>,
           lastErr |-> 0, raised |-> 0, sleeps |-> 0]

\* ---------------------------------------------------------------- Init
\* The persistence target holding the records of the identifiers in S.
FileOf(S) ==
    [exists |-> TRUE, wellformed |-> TRUE,
     recs |-> [j \in 1..Len(SortedSeq(S)) |-> KnowledgeRecord(SortedSeq(S)[j])]]

\* Prior content of the persistence target: absent, or an array written by
\* an earlier run: the record of an identifier no input item has (0), or the
\* records of some identifiers input items may have.
PriorFiles ==
    {NoFile, FileOf({0})} \cup {FileOf(S) : S \in (SUBSET (1..MaxItems)) \ {{}}}

InitWith(Inputs) ==
    /\ args \in [thread_pool_size : 1..MaxWorkers, retry_time : 1..MaxRetry,
                 resume : BOOLEAN]
    /\ data \in Inputs
    /\ file \in PriorFiles
    \* a run that does not resume never reads the prior content: one
    \* existing target stands for all of them
    /\ ~args.resume => file \in {NoFile, FileOf({1})}
    /\ output_data = <<>>
    /\ resume_set = {}
    /\ output_lock = 0
    /\ file_lock = 0
    /\ future = [k \in Idx |-> "unsubmitted"]
    /\ mainPc = "start"
    /\ wk = [k \in Idx |-> IdleWk]
    /\ hist = [k \in Idx |-> NoHist]
    /\ lastFlush = file.recs
    /\ flushes = 0
    /\ prior = file
    /\ killed = FALSE
    /\ call = NoCall

\* Inputs as the change supplier delivers them: every item carries all its
\* fields and a unique identifier (items are named by their position).
WellFormedInputs ==
    {[k \in 1..n |-> Item(k, Keys)] : n \in 0..MaxItems}

Init == InitWith(WellFormedInputs)

\* ------------------------------------------------------------- actions
\* Faulty variant of ResumeLoad: the prior records are never loaded.
ResumeLoadNothing == <<>>

\* Lines 315-322: the buffer a run starts from.
ResumeLoad ==
    IF args.resume /\ file.exists THEN file.recs ELSE <<>>

\* Faulty variant of ResumeSetOf: only the last record loaded is remembered.
ResumeSetOfLast(buffer) ==
    IF buffer = <<>> THEN {} ELSE {buffer[Len(buffer)].id}

\* Line 323: resume_set = set([item["id"] for item in output_data]); it stays
\* the empty set of line 316 when nothing was loaded.
ResumeSetOf(buffer) == RecordIds(buffer)

\* extract_knowledge_pipeline, lines 295-333: initialise the generation
\* client (get_llm_client raises when, for one, the credentials are missing:
\* the run prints the failure and exits with status 1), load the prior output
\* when resuming, then hand every item to the executor (executor.map submits
\* all of them before the first result is awaited).
Startup ==
    /\ ~killed
    /\ mainPc = "start"
    /\ \E client_ok \in BOOLEAN :
          IF ~client_ok
          THEN \* lines 299-301: sys.exit(1)
               /\ mainPc' = "exit"
               /\ UNCHANGED <<output_data, resume_set, future>>
          ELSE IF args.resume /\ file.exists /\ ~file.wellformed
          THEN \* json.load raises: the run ends before scheduling
               /\ mainPc' = "raised"
               /\ UNCHANGED <<output_data, resume_set, future>>
          ELSE /\ output_data' = ResumeLoad
               /\ resume_set' = ResumeSetOf(output_data')
               /\ future' = [k \in Idx |-> "pending"]
               /\ mainPc' = "map"
    /\ UNCHANGED <<call, args, data, file, output_lock, file_lock, wk, hist,
                   lastFlush, flushes, prior, killed>>

\* Faulty variant of InResume: the resume set is never consulted.
InResumeNever(item) == FALSE

\* Line 285: whether the item's identifier is in resume_set.
InResume(item) == item.id \in resume_set

\* Faulty variant of HandlerResult: the handler lets the exception through.
HandlerReraises(item) == "raised"

\* Lines 278-280, the handler of extract_knowledge: it formats
\* item['cve_id'] into its message and returns; the lookup raises when the
\* item has no such key, and that exception leaves extract_knowledge.
HandlerResult(item) == IF HasKey(item, "cve_id") THEN "finished" ELSE "raised"

\* Faulty variant of Dispatch: the prompt fields are not read before the
\* first generation call.
DispatchUnchecked(item) ==
    IF ~HasKey(item, "id") THEN "raised"
    ELSE IF InResume(item)
         THEN (IF HasKey(item, "cve_id") THEN "resumed" ELSE "raised")
    ELSE IF HasKey(item, "cve_id") THEN "gen"
    ELSE "raised"

\* What process_item (lines 283-288) and the head of extract_knowledge
\* (lines 195-219, 278-280) do with an item before any generation call:
\*   "raised"    an exception leaves process_item (line 285 reads item["id"]
\*               outside any try; lines 279 and 288 read item['cve_id']),
\*   "resumed"   the item is in resume_set and is skipped,
\*   "malformed" building the prompts raised and the handler returned,
\*   "gen"       the worker goes on to stage 1.
Dispatch(item) ==
    IF ~HasKey(item, "id") THEN "raised"
    ELSE IF InResume(item)
         THEN (IF HasKey(item, "cve_id") THEN "resumed" ELSE "raised")
    ELSE IF PromptKeys \subseteq item.keys THEN "gen"
    ELSE IF HandlerResult(item) = "finished" THEN "malformed"
    ELSE "raised"

\* A pool thread takes the oldest pending work item and runs process_item on
\* it up to its first generation call.
ProcessItem(k) ==
    /\ ~killed
    /\ future[k] = "pending"
    /\ \A j \in 1..(k - 1) : future[j] # "pending"
    /\ Cardinality(Running) < args.thread_pool_size
    /\ LET d == Dispatch(data[k]) IN
        IF d = "gen"
        THEN /\ future' = [future EXCEPT ![k] = "running"]
             /\ wk' = [wk EXCEPT ![k] = [@ EXCEPT !.pc = "gen", !.stage = 1,
                                                  !.attempt = 0]]
        ELSE /\ future' = [future EXCEPT ![k] =
                              IF d = "raised" THEN "raised" ELSE "finished"]
             /\ wk' = [wk EXCEPT ![k] = [@ EXCEPT !.pc = "done", !.outcome = d]]
    /\ UNCHANGED <<call, args, data, file, output_data, resume_set, output_lock,
                   file_lock, mainPc, hist, lastFlush, flushes, prior, killed>>

\* Faulty variant of Parses: every text is taken for a JSON object.
ParsesAnything(txt) == TRUE

\* parse_vulnerability_knowledge, lines 164-188, on a class of text: whether
\* json.loads returns an object.
Parses(txt) == txt = "json_object"

\* Faulty variants of RetryLeft: the loop makes one pass too many, one pass
\* too few.
RetryLeftOneMore(attempt) == attempt < args.retry_time

RetryLeftOneFewer(attempt) == attempt + 2 < args.retry_time

\* Line 201, for attempt in range(args.retry_time): whether another pass
\* follows the pass numbered attempt.
RetryLeft(attempt) == attempt + 1 < args.retry_time

\* Faulty variant of NextStage: the knowledge-extraction call follows the
\* function summary at once.
NextStageSkipsAnalysis(stage) == IF stage = 2 THEN 4 ELSE stage + 1

\* Lines 221-236: the stage whose generate_with_retry call follows that of
\* stage (purpose, function summary, analysis, knowledge extraction, in the
\* order of the statements).
NextStage(stage) == stage + 1

\* Faulty variant of LastException: the first error is kept.
LastExceptionKeepsFirst(last_exception, e) ==
    IF last_exception = 0 THEN e ELSE last_exception

\* Line 205, last_exception = e: the variable that line 210 raises holds the
\* error of the attempt that has just failed.
LastException(last_exception, e) == e

\* Faulty variant of SleepsAfter: a delay follows every failed attempt.
SleepsAfterEvery(attempt) == TRUE

\* Lines 206-208: the failure is printed and one second is waited when the
\* failed attempt is not the last one of the loop.
SleepsAfter(attempt) == attempt < args.retry_time - 1

\* llm_client.generate_simple_prompt (llm_client.py lines 44-52) with the
\* default empty system message: one user turn.
generate_simple_prompt(user_message) ==
    <<[role |-> "user", content |-> user_message]>>

\* Faulty variant of MessagesAfter: the response of the analysis stage is not
\* put into the conversation.
MessagesAfterDropsResponse(stage, messages) ==
    IF stage = 2 THEN generate_simple_prompt("analysis_prompt")
    ELSE IF stage = 3
    THEN Append(messages, [role |-> "user",
                           content |-> "knowledge_extraction_prompt"])
    ELSE messages

\* The list messages once the call of stage has returned: line 230 creates
\* it for the analysis stage, lines 234-235 append the analysis output as the
\* assistant turn and the knowledge-extraction prompt as a user turn.
MessagesAfter(stage, messages) ==
    IF stage = 2 THEN generate_simple_prompt("analysis_prompt")
    ELSE IF stage = 3
    THEN Append(Append(messages, [role |-> "assistant",
                                  content |-> "analysis_output"]),
                [role |-> "user", content |-> "knowledge_extraction_prompt"])
    ELSE messages

\* The conversation handed to generate_with_retry for stage (lines 222-236):
\* a fresh one-turn list for the purpose and the function summary, the list
\* messages for the analysis and the knowledge extraction.
PromptDict(stage, messages) ==
    IF stage = 1 THEN generate_simple_prompt("purpose_prompt")
    ELSE IF stage = 2 THEN generate_simple_prompt("function_prompt")
    ELSE messages

\* generate_with_retry, lines 198-210: one pass of the loop body, that is one
\* invocation of MODEL_CLIENT.generate_text, which returns a text or raises.
\* A text returned for stage 4 is parsed at once (lines 236-265).
GenerateText(k) ==
    /\ ~killed
    /\ wk[k].pc = "gen"
    /\ \E ok \in BOOLEAN, txt \in Stage4Texts :
        LET w == wk[k]
            h == hist[k]
        IN
        IF ok
        THEN \* generate_with_retry returns
             /\ hist' = [hist EXCEPT ![k] =
                    [ncalls |-> 0, nfails |-> 0,
                     anyFail |-> h.anyFail, anyOk |-> TRUE,
                     hard |-> h.hard /\ h.ncalls + 1 = args.retry_time,
                     issued |-> w.stage, responses |-> w.stage,
                     conv |-> PromptDict(w.stage, w.messages),
                     lastErr |-> 0, raised |-> 0, sleeps |-> 0]]
             /\ wk' = [wk EXCEPT ![k] =
                    IF w.stage < NumStages
                    THEN [w EXCEPT !.stage = NextStage(w.stage), !.attempt = 0,
                                   !.messages = MessagesAfter(w.stage, @),
                                   !.last_exception = "None"]
                    ELSE IF Parses(txt)
                    THEN \* lines 238-265: output_dict is assembled
                         [w EXCEPT !.pc = "lock", !.attempt = 0, !.text = txt,
                                   !.last_exception = "None"]
                    ELSE \* json.loads raises, caught at line 278
                         [w EXCEPT !.pc = "done", !.attempt = 0, !.text = txt,
                                   !.last_exception = "ParseFailure",
                                   !.outcome = "parse_failed"]]
             /\ future' = [future EXCEPT ![k] =
                    IF w.stage = NumStages /\ ~Parses(txt)
                    THEN HandlerResult(data[k]) ELSE @]
        ELSE /\ hist' = [hist EXCEPT ![k] =
                    [ncalls |-> h.ncalls + 1, nfails |-> h.nfails + 1,
                     anyFail |-> TRUE, anyOk |-> h.anyOk, hard |-> h.hard,
                     issued |-> w.stage, responses |-> h.responses,
                     conv |-> PromptDict(w.stage, w.messages),
                     lastErr |-> LastException(h.lastErr, w.attempt + 1),
                     raised |-> IF RetryLeft(w.attempt) THEN 0
                                ELSE LastException(h.lastErr, w.attempt + 1),
                     sleeps |-> IF SleepsAfter(w.attempt) THEN h.sleeps + 1
                                ELSE h.sleeps]]
             /\ IF RetryLeft(w.attempt)
                THEN \* sleep, then the next pass of the loop
                     /\ wk' = [wk EXCEPT ![k] =
                            [w EXCEPT !.attempt = w.attempt + 1,
                                      !.last_exception = "GenerationFailure"]]
                     /\ future' = future
                ELSE \* raise last_exception, caught at line 278
                     /\ wk' = [wk EXCEPT ![k] =
                            [w EXCEPT !.pc = "done", !.attempt = 0,
                                      !.last_exception = "GenerationFailure",
                                      !.outcome = "gen_failed"]]
                     /\ future' = [future EXCEPT ![k] = HandlerResult(data[k])]
    /\ UNCHANGED <<call, args, data, file, output_data, resume_set, output_lock,
                   file_lock, mainPc, lastFlush, flushes, prior, killed>>

\* Faulty variants of CanAcquire: the lock excludes nobody, the lock is never
\* granted.
CanAcquireAlways(lock) == TRUE

CanAcquireNever(lock) == FALSE

\* threading.Lock (lines 33-34): a with-statement enters only when the lock
\* is free.
CanAcquire(lock) == lock = 0

\* Faulty variant of AtOutputLock: the with-statement is entered while the
\* generation calls of the record are still to be made.
AtOutputLockEarly(w) == w.pc \in {"gen", "lock"}

\* The worker has reached line 268: the four calls of lines 223-236 have
\* returned and the record is assembled (lines 238-265).
AtOutputLock(w) == w.pc = "lock"

\* Line 268: with output_lock.
AcquireOutputLock(k) ==
    /\ ~killed
    /\ AtOutputLock(wk[k])
    /\ CanAcquire(output_lock)
    /\ output_lock' = k
    /\ wk' = [wk EXCEPT ![k] = [@ EXCEPT !.pc = "append"]]
    /\ UNCHANGED <<call, args, data, file, output_data, resume_set, file_lock, future,
                   mainPc, hist, lastFlush, flushes, prior, killed>>

\* Faulty variant of BufferAfterAppend: the buffer is replaced by the record.
BufferReplaced(rec) == <<rec>>

\* The buffer after line 269 has run for a record.
BufferAfterAppend(rec) == Append(output_data, rec)

\* Line 269: output_data.append(output_dict).
AppendRecord(k) ==
    /\ ~killed
    /\ wk[k].pc = "append"
    /\ output_data' = BufferAfterAppend(KnowledgeRecord(data[k].id))
    /\ wk' = [wk EXCEPT ![k] = [@ EXCEPT !.pc = "file_lock"]]
    /\ UNCHANGED <<call, args, data, file, resume_set, output_lock, file_lock, future,
                   mainPc, hist, lastFlush, flushes, prior, killed>>

\* Line 270: with file_lock.
AcquireFileLock(k) ==
    /\ ~killed
    /\ wk[k].pc = "file_lock"
    /\ CanAcquire(file_lock)
    /\ file_lock' = k
    /\ wk' = [wk EXCEPT ![k] = [@ EXCEPT !.pc = "open"]]
    /\ UNCHANGED <<call, args, data, file, output_data, resume_set, output_lock, future,
                   mainPc, hist, lastFlush, flushes, prior, killed>>

\* Line 273: open(output_path, "w") creates the target or truncates it to
\* nothing.
OpenTarget(k) ==
    /\ ~killed
    /\ wk[k].pc = "open"
    /\ file' = [exists |-> TRUE, wellformed |-> FALSE, recs |-> <<>>]
    /\ wk' = [wk EXCEPT ![k] = [@ EXCEPT !.pc = "dump"]]
    /\ UNCHANGED <<call, args, data, output_data, resume_set, output_lock, file_lock,
                   future, mainPc, hist, lastFlush, flushes, prior, killed>>

\* Faulty variant of Dumped: only the newest record is written.
DumpedNewestOnly(buffer) ==
    IF buffer = <<>> THEN <<>> ELSE <<buffer[Len(buffer)]>>

\* What json.dump(output_data, f, ...) of line 274 writes: the whole list, in
\* its order.
Dumped(buffer) == buffer

\* Line 274 and the end of the with-open block: json.dump writes the whole
\* buffer and the target is closed.
DumpBuffer(k) ==
    /\ ~killed
    /\ wk[k].pc = "dump"
    /\ file' = [exists |-> TRUE, wellformed |-> TRUE, recs |-> Dumped(output_data)]
    /\ lastFlush' = Dumped(output_data)
    /\ flushes' = flushes + 1
    /\ wk' = [wk EXCEPT ![k] = [@ EXCEPT !.pc = "release"]]
    /\ UNCHANGED <<call, args, data, output_data, resume_set, output_lock, file_lock,
                   future, mainPc, hist, prior, killed>>

\* Faulty variant of WithExit: a with-block left by an exception keeps its
\* lock.
WithExitLeaksOnRaise(lock, last_exception) ==
    IF last_exception = "None" THEN 0 ELSE lock

\* The exit of a with-statement on a threading.Lock (lines 268 and 270)
\* releases the lock, whether the block ended or raised.
WithExit(lock, last_exception) == 0

\* Line 272 or line 273 raises (the directory or the target cannot be
\* created or opened): the target is left as it was and the exception leaves
\* the with-blocks.
OpenFails(k) ==
    /\ ~killed
    /\ wk[k].pc = "open"
    /\ wk' = [wk EXCEPT ![k] = [@ EXCEPT !.pc = "release",
                                         !.last_exception = "WriteFailure"]]
    /\ UNCHANGED <<call, args, data, file, output_data, resume_set, output_lock,
                   file_lock, future, mainPc, hist, lastFlush, flushes, prior,
                   killed>>

\* Line 274 raises while writing (the device is full, say): the target stays
\* truncated or partly written and the exception leaves the with-blocks.
DumpFails(k) ==
    /\ ~killed
    /\ wk[k].pc = "dump"
    /\ file' = [exists |-> TRUE, wellformed |-> FALSE, recs |-> <<>>]
    /\ wk' = [wk EXCEPT ![k] = [@ EXCEPT !.pc = "release",
                                         !.last_exception = "WriteFailure"]]
    /\ UNCHANGED <<call, args, data, output_data, resume_set, output_lock,
                   file_lock, future, mainPc, hist, lastFlush, flushes, prior,
                   killed>>

\* End of the inner with-block (line 270): file_lock is released first.
ReleaseFileLock(k) ==
    /\ ~killed
    /\ wk[k].pc = "release"
    /\ file_lock' = WithExit(file_lock, wk[k].last_exception)
    /\ wk' = [wk EXCEPT ![k] = [@ EXCEPT !.pc = "release_out"]]
    /\ UNCHANGED <<call, args, data, file, output_data, resume_set, output_lock,
                   future, mainPc, hist, lastFlush, flushes, prior, killed>>

\* End of the outer with-block (line 268): output_lock is released; then
\* line 276 and the return, or, when the write raised, the handler of lines
\* 278-280.
ReleaseOutputLock(k) ==
    /\ ~killed
    /\ wk[k].pc = "release_out"
    /\ output_lock' = WithExit(output_lock, wk[k].last_exception)
    /\ IF wk[k].last_exception = "None"
       THEN /\ wk' = [wk EXCEPT ![k] =
                   [@ EXCEPT !.pc = "done", !.outcome = "recorded"]]
            /\ future' = [future EXCEPT ![k] = "finished"]
       ELSE /\ wk' = [wk EXCEPT ![k] =
                   [@ EXCEPT !.pc = "done", !.outcome = "write_failed"]]
            /\ future' = [future EXCEPT ![k] = HandlerResult(data[k])]
    /\ UNCHANGED <<call, args, data, file, output_data, resume_set, file_lock,
                   mainPc, hist, lastFlush, flushes, prior, killed>>

\* Index of the first work item whose result is an exception that the main
\* thread can reach: every result before it has been delivered.  0 if none.
FirstRaised ==
    LET R == {p \in Idx : /\ future[p] = "raised"
                          /\ \A j \in 1..(p - 1) : future[j] = "finished"}
    IN IF R = {} THEN 0 ELSE CHOOSE p \in R : TRUE

\* Lines 328-338: the main thread consumes the results of executor.map in
\* input order.  A result that is an exception is re-raised in the main
\* thread; the iterator then cancels every work item that has not started,
\* and the executor's exit waits for the running ones.  With every result
\* delivered the run completes.
AwaitResult ==
    /\ ~killed
    /\ mainPc = "map"
    /\ IF FirstRaised # 0
       THEN /\ mainPc' = "raised"
            /\ future' = [k \in Idx |->
                  IF future[k] = "pending" THEN "cancelled" ELSE future[k]]
       ELSE /\ \A k \in Idx : future[k] = "finished"
            /\ mainPc' = "complete"
            /\ future' = future
    /\ UNCHANGED <<call, args, data, file, output_data, resume_set, output_lock,
                   file_lock, wk, hist, lastFlush, flushes, prior, killed>>

\* The process has ended by itself: normally, by sys.exit at the failed
\* initialisation, or with the exception that reached the main thread once
\* the running workers have returned.
Exited ==
    \/ mainPc = "complete"
    \/ mainPc = "exit"
    \/ mainPc = "raised" /\ Running = {}

\* External termination of the process (section 5 of the design: process
\* kill), possible at any point of a run.
Kill ==
    /\ ~killed
    /\ ~Exited
    /\ killed' = TRUE
    /\ UNCHANGED <<call, args, data, file, output_data, resume_set, output_lock,
                   file_lock, future, mainPc, wk, hist, lastFlush,
                   flushes, prior>>

Next ==
    \/ Startup
    \/ AwaitResult
    \/ \E k \in Idx : ProcessItem(k)
    \/ \E k \in Idx : GenerateText(k)
    \/ \E k \in Idx : AcquireOutputLock(k)
    \/ \E k \in Idx : AppendRecord(k)
    \/ \E k \in Idx : AcquireFileLock(k)
    \/ \E k \in Idx : OpenTarget(k)
    \/ \E k \in Idx : DumpBuffer(k)
    \/ \E k \in Idx : ReleaseFileLock(k)
    \/ \E k \in Idx : ReleaseOutputLock(k)

Spec == Init /\ [][Next]_vars

\* Inputs in which an item may lack one of the keys it is read by.
AnyInputs ==
    {[k \in 1..n |-> Item(k, ks[k])] :
        n \in 0..MaxItems,
        ks \in [1..MaxItems -> {Keys} \cup {Keys \ {m} : m \in Keys}]}

InitMalformed == InitWith(AnyInputs)

SpecMalformed == InitMalformed /\ [][Next]_vars

\* Runs that may be killed from outside.
NextKill == Next \/ Kill

SpecKill == Init /\ [][NextKill]_vars

\* The operator invokes the program again with --resume on the same input
\* and the same output name once a run has completed: a new process starts
\* (lines 291-324) and finds the target as the completed run left it.
Reinvoke ==
    /\ ~killed
    /\ mainPc = "complete"
    /\ args' = [args EXCEPT !.resume = TRUE]
    /\ output_data' = <<>>
    /\ resume_set' = {}
    /\ future' = [k \in Idx |-> "unsubmitted"]
    /\ mainPc' = "start"
    /\ wk' = [k \in Idx |-> IdleWk]
    /\ hist' = [k \in Idx |-> NoHist]
    /\ lastFlush' = file.recs
    /\ flushes' = 0
    /\ prior' = file
    /\ UNCHANGED <<call, data, file, output_lock, file_lock, killed>>

NextRerun == Next \/ Reinvoke

SpecRerun == Init /\ [][NextRerun]_vars

\* Runs in which a write of the target may fail.
NextWriteFail ==
    \/ Next
    \/ \E k \in Idx : OpenFails(k)
    \/ \E k \in Idx : DumpFails(k)

SpecWriteFail == Init /\ [][NextWriteFail]_vars

\* Runs in which the threads of the process keep being scheduled and every
\* generation call returns or fails: a step that stays possible is taken.
SpecLive == Init /\ [][Next]_vars /\ WF_vars(Next)

\* ------------------------------------------------------ pure functions
\* The pure functions of the repository are studied one call at a time: call
\* holds the function and its argument, and the step of the function stores
\* its result.  No pipeline run is in progress meanwhile.
pipelineVars == <<args, data, file, output_data, resume_set, output_lock,
                  file_lock, future, mainPc, wk, hist, lastFlush, flushes,
                  prior, killed>>

PipelineIdle ==
    /\ args = [thread_pool_size |-> 1, retry_time |-> 1, resume |-> FALSE]
    /\ data = <<>>
    /\ file = NoFile
    /\ output_data = <<>>
    /\ resume_set = {}
    /\ output_lock = 0
    /\ file_lock = 0
    /\ future = <<>>
    /\ mainPc = "start"
    /\ wk = <<>>
    /\ hist = <<>>
    /\ lastFlush = <<>>
    /\ flushes = 0
    /\ prior = NoFile
    /\ killed = FALSE

\* A call of function f on one of the arguments Args, not yet returned.
InitCall(f, Args) ==
    /\ PipelineIdle
    /\ call \in {[fn |-> f, arg |-> a, returned |-> FALSE, ret |-> <<>>] :
                   a \in Args}

\* Function f has returned.
Returned(f) == call.fn = f /\ call.returned

\* ---- assembly of a record, extract_knowledge lines 239-265
\* Sub-fields of vulnerability_behavior that are flattened into the record.
VbFields == {"vulnerability_cause_description", "trigger_condition",
             "specific_code_behavior_causing_vulnerability"}

\* Keys the code sets on the decoded object whatever it holds (lines
\* 242-255 and 263-265).
AlwaysSet == {"analysis", "purpose", "function", "CVE_id", "id",
              "code_before_change", "code_after_change", "modified_lines"}
             \cup VbFields

\* Keys that lines 242 and 251-255 assign from the analysis output and from
\* the input item.
CopiedKeys == {"analysis", "CVE_id", "id", "code_before_change",
               "code_after_change", "modified_lines"}

\* What json.loads returned for the stage-4 text, as far as the assembly
\* looks at it: whether the object has a top-level "solution", its
\* "vulnerability_behavior": absent, a mapping with some of the sub-fields
\* and possibly a nested "solution", or a value that is no mapping, and
\* which of the copied keys it holds itself (clash), with a generated value;
\* cve is the cve_id of the input item.
DecodedObjects ==
    [solution : BOOLEAN,
     vb : [kind : {"absent", "other"}, keys : {{}}]
          \cup [kind : {"mapping"}, keys : SUBSET (VbFields \cup {"solution"})],
     cve : {"CVE-A", "CVE-B"},
     clash : SUBSET CopiedKeys]

\* Faulty variant of SetKey: a key the object already holds keeps its value.
SetKeyDefault(dict, key, value) ==
    [dict EXCEPT ![key] = IF @ = "absent" THEN value ELSE @]

\* output_dict[key] = value (lines 242-255): the value replaces what the
\* object held under the key.
SetKey(dict, key, value) == [dict EXCEPT ![key] = value]

\* The values of the copied keys after lines 239-255 on a decoded object d:
\* output_dict starts as the decoded object and the assignments follow in
\* the order of the source.
CopiedValues(d) ==
    LET decoded == [key \in CopiedKeys |->
                       IF key \in d.clash THEN "generated" ELSE "absent"]
        a1 == SetKey(decoded, "analysis", "analysis_output")
        a2 == SetKey(a1, "CVE_id", d.cve)
        a3 == SetKey(a2, "id", "item.id")
        a4 == SetKey(a3, "code_before_change", "item.code_before_change")
        a5 == SetKey(a4, "code_after_change", "item.code_after_change")
    IN SetKey(a5, "modified_lines", "item.function_modified_lines")

\* Lines 239-265 on a decoded object d: the keys of output_dict, and those
\* among them whose value is the empty string; or the exception raised by
\* vb.get when "vulnerability_behavior" is no mapping (it reaches the handler
\* of line 278 and no record exists).
AssembleRecord(d) ==
    IF d.vb.kind = "other"
    THEN [raised |-> TRUE, present |-> {}, empty |-> {}, CVE_id |-> "None",
          values |-> [key \in CopiedKeys |-> "absent"]]
    ELSE LET vbkeys == IF d.vb.kind = "mapping" THEN d.vb.keys ELSE {}
         IN [raised |-> FALSE,
             present |-> AlwaysSet
                 \cup (IF d.vb.kind = "mapping"
                       THEN {"vulnerability_behavior"} ELSE {})
                 \cup (IF d.solution \/ "solution" \in vbkeys
                       THEN {"solution"} ELSE {}),
             empty |-> VbFields \ vbkeys,
             CVE_id |-> CopiedValues(d)["CVE_id"],
             values |-> CopiedValues(d)]

Assemble ==
    /\ call.fn = "assemble"
    /\ ~call.returned
    /\ call' = [call EXCEPT !.returned = TRUE, !.ret = AssembleRecord(call.arg)]
    /\ UNCHANGED pipelineVars

SpecAssemble == InitCall("assemble", DecodedObjects) /\ [][Assemble]_vars

\* ---- DiffExtractor.parse_diff_for_modified_lines, diff_extractor.py 42-72
\* A diff text is the sequence of its lines (diff_text.splitlines(), line 52;
\* the empty text has no line).  A line is told by what the parser tests:
\*   "hunk"        starts with "@@" and matches the header pattern, old and
\*                 new being the two start numbers,
\*   "hunk_bad"    starts with "@@" and does not match,
\*   "add", "del"  starts with "+" / "-", not with "+++" / "---",
\*   "add_header", "del_header"   starts with "+++" / "---",
\*   "nonl"        the marker "\ No newline at end of file",
\*   "ctx"         any other line.
DiffLine(kind, old, new) == [kind |-> kind, old |-> old, new |-> new]

\* The header @@ -10,3 +10,4 @@ and a header with other start numbers.
HunkHeaders == {DiffLine("hunk", 10, 10), DiffLine("hunk", 3, 5)}

DiffLines ==
    HunkHeaders \cup
    {DiffLine(kd, 0, 0) : kd \in {"hunk_bad", "add", "del", "add_header",
                                  "del_header", "nonl", "ctx"}}

RECURSIVE SeqsUpTo(_, _)
SeqsUpTo(S, n) ==
    IF n = 0 THEN {<<>>}
    ELSE LET shorter == SeqsUpTo(S, n - 1)
         IN shorter \cup {Append(q, x) : q \in {r \in shorter : Len(r) = n - 1},
                                          x \in S}

DiffTexts == SeqsUpTo(DiffLines, MaxDiffLines)

\* Faulty variant of DiffLocals: a list is not empty when the scan starts.
DiffLocalsDirty ==
    [added_lines |-> <<1>>, deleted_lines |-> <<>>,
     current_old_line |-> 0, current_new_line |-> 0]

\* Lines 46-50: the locals of a call before the scan.
DiffLocals ==
    [added_lines |-> <<>>, deleted_lines |-> <<>>,
     current_old_line |-> 0, current_new_line |-> 0]

\* Faulty variant of OnContext: a context line moves no cursor.
OnContextFrozen(st) == st

\* Lines 68-70: any other line advances both cursors.
OnContext(st) ==
    [st EXCEPT !.current_old_line = @ + 1, !.current_new_line = @ + 1]

\* Faulty variant of OnAdd: an added line advances both cursors.
OnAddMovesBoth(st) ==
    [st EXCEPT !.added_lines = Append(@, st.current_new_line),
               !.current_new_line = @ + 1, !.current_old_line = @ + 1]

\* Lines 60-62: an added line is recorded at the new cursor, which advances.
OnAdd(st) ==
    [st EXCEPT !.added_lines = Append(@, st.current_new_line),
               !.current_new_line = @ + 1]

\* Lines 64-66: a deleted line is recorded at the old cursor, which advances.
OnDelete(st) ==
    [st EXCEPT !.deleted_lines = Append(@, st.current_old_line),
               !.current_old_line = @ + 1]

\* Lines 52-70: the body of the scan for one line.
ScanLine(st, line) ==
    IF line.kind \in {"hunk", "hunk_bad"}
    THEN IF line.kind = "hunk"
         THEN [st EXCEPT !.current_old_line = line.old,
                         !.current_new_line = line.new]
         ELSE st
    ELSE IF line.kind = "add"
    THEN OnAdd(st)
    ELSE IF line.kind = "del"
    THEN OnDelete(st)
    ELSE OnContext(st)

RECURSIVE ScanFrom(_, _, _)
ScanFrom(lines, i, st) ==
    IF i > Len(lines) THEN st
    ELSE ScanFrom(lines, i + 1, ScanLine(st, lines[i]))

\* The locals before the scan and after each of its lines, in order.
RECURSIVE ScanTrace(_, _, _)
ScanTrace(lines, i, st) ==
    IF i > Len(lines) THEN <<st>>
    ELSE <<st>> \o ScanTrace(lines, i + 1, ScanLine(st, lines[i]))

\* The locals when the scan of diff_text ends; the function returns the two
\* lists (line 72).
parse_diff_for_modified_lines(diff_text) == ScanFrom(diff_text, 1, DiffLocals)

\* A call of the parser on the text under study; the text may be parsed a
\* second time, and call.ret lists the results in call order.
ParseDiff ==
    /\ call.fn = "parse_diff_for_modified_lines"
    /\ Len(call.ret) < 2
    /\ call' = [call EXCEPT
                   !.returned = TRUE,
                   !.ret = Append(@, parse_diff_for_modified_lines(call.arg))]
    /\ UNCHANGED pipelineVars

SpecDiff ==
    InitCall("parse_diff_for_modified_lines", DiffTexts) /\ [][ParseDiff]_vars

\* ---- decoding of a response text
\* A response text is a sequence of pieces:
\*   "txt"         prose: no brace, no fence, not JSON,
\*   "{", "}"      a brace,
\*   "sol"         the member "solution": "do X",
\*   "vbk"         the key "vulnerability_behavior" with its colon (an
\*                 object follows it in a well-formed text),
\*   "fence"       ``` ,   "fence_json"   ```json .
\* The commas between members are left out.
Pieces == {"txt", "{", "}", "sol", "vbk", "fence", "fence_json"}

ResponseTexts == SeqsUpTo(Pieces, MaxTextLen)

NoObject == [solution |-> FALSE, vb |-> "absent", vbsolution |-> FALSE]

Undecodable == [ok |-> FALSE, next |-> 0, obj |-> NoObject]

\* json.loads on an object: the members between its braces.
RECURSIVE DecodeObject(_, _)
RECURSIVE DecodeMembers(_, _, _)
DecodeMembers(t, i, acc) ==
    IF i > Len(t) THEN Undecodable
    ELSE IF t[i] = "}" THEN [ok |-> TRUE, next |-> i + 1, obj |-> acc]
    ELSE IF t[i] = "sol"
    THEN DecodeMembers(t, i + 1, [acc EXCEPT !.solution = TRUE])
    ELSE IF t[i] = "vbk"
    THEN LET r == DecodeObject(t, i + 1)
         IN IF r.ok
            THEN DecodeMembers(t, r.next,
                     [acc EXCEPT !.vb = "mapping",
                                 !.vbsolution = r.obj.solution])
            ELSE Undecodable
    ELSE Undecodable

DecodeObject(t, i) ==
    IF i <= Len(t) /\ t[i] = "{" THEN DecodeMembers(t, i + 1, NoObject)
    ELSE Undecodable

\* json.loads(text): the object the whole text is, or a failure.
JsonLoads(t) ==
    LET r == DecodeObject(t, 1)
    IN IF r.ok /\ r.next = Len(t) + 1 THEN [ok |-> TRUE, obj |-> r.obj]
       ELSE [ok |-> FALSE, obj |-> NoObject]

\* str.find / str.rfind for a piece among S: its first / last index, 0 when
\* there is none.
FindFirst(t, S) ==
    IF \E i \in 1..Len(t) : t[i] \in S
    THEN CHOOSE i \in 1..Len(t) : t[i] \in S /\ \A j \in 1..(i - 1) : t[j] \notin S
    ELSE 0

FindLast(t, S) ==
    IF \E i \in 1..Len(t) : t[i] \in S
    THEN CHOOSE i \in 1..Len(t) :
            t[i] \in S /\ \A j \in (i + 1)..Len(t) : t[j] \notin S
    ELSE 0

\* text.split(sep)[1] and text.split(sep)[0], sep being any piece of S.
AfterFirst(t, S) == SubSeq(t, FindFirst(t, S) + 1, Len(t))

UpToFirst(t, S) ==
    IF FindFirst(t, S) = 0 THEN t ELSE SubSeq(t, 1, FindFirst(t, S) - 1)

\* safe_json_loads, src/piplines/pipeline_extract.py lines 69-87: decode the
\* whole text; failing that, decode from the first "{" to the last "}";
\* failing that, return None.
safe_json_loads(text) ==
    IF JsonLoads(text).ok THEN JsonLoads(text)
    ELSE LET start == FindFirst(text, {"{"})
             end == FindLast(text, {"}"})
         IN IF start # 0 /\ end # 0 /\ end > start
            THEN JsonLoads(SubSeq(text, start, end))
            ELSE [ok |-> FALSE, obj |-> NoObject]

\* parse_vulnerability_knowledge, src/src/pipelines/pipeline_extract.py
\* lines 164-188, the decoder the pipeline calls: keep what stands inside the
\* first fenced block if there is one (lines 170-173), restart the text at
\* its first "vulnerability_behavior" key if there is one (lines 176-178, up
\* to a second such key), then json.loads; a failure is raised (line 188).
Unfenced(text) ==
    IF FindFirst(text, {"fence_json"}) # 0
    THEN UpToFirst(UpToFirst(AfterFirst(text, {"fence_json"}), {"fence_json"}),
                   {"fence", "fence_json"})
    ELSE IF FindFirst(text, {"fence"}) # 0
    THEN UpToFirst(AfterFirst(text, {"fence"}), {"fence"})
    ELSE text

FromBehaviorKey(text) ==
    IF FindFirst(text, {"vbk"}) # 0
    THEN <<"{", "vbk">> \o UpToFirst(AfterFirst(text, {"vbk"}), {"vbk"})
    ELSE text

parse_vulnerability_knowledge(llm_output) ==
    JsonLoads(FromBehaviorKey(Unfenced(llm_output)))

ParseKnowledge ==
    /\ call.fn = "parse_vulnerability_knowledge"
    /\ ~call.returned
    /\ call' = [call EXCEPT !.returned = TRUE,
                            !.ret = parse_vulnerability_knowledge(call.arg)]
    /\ UNCHANGED pipelineVars

SafeJsonLoads ==
    /\ call.fn = "safe_json_loads"
    /\ ~call.returned
    /\ call' = [call EXCEPT !.returned = TRUE,
                            !.ret = safe_json_loads(call.arg)]
    /\ UNCHANGED pipelineVars

InitDecode ==
    \/ InitCall("parse_vulnerability_knowledge", ResponseTexts)
    \/ InitCall("safe_json_loads", ResponseTexts)

NextDecode == ParseKnowledge \/ SafeJsonLoads

SpecDecode == InitDecode /\ [][NextDecode]_vars

\* ---- generate_extract_prompt, lines 94-161
\* A prompt is told by the pieces its text is put together from: the prefix
\* (cve_id, code_before and cve_description, lines 101-107), the instruction
\* that ends it, and for the analysis prompt the rendered modified_lines and
\* the blocks showing code_after (none or one).
LineLists == {<<>>, <<3>>, <<7>>, <<3, 7>>}

ModifiedLines == [added : LineLists, deleted : LineLists]

PromptInputs ==
    [cve_id : {"CVE-A"}, cve_description : {"D"},
     modified_lines : ModifiedLines,
     code_before : {"B1", "B2"}, code_after : {"", "A1", "A2"}]

\* Faulty variant of HasAdded: any modified line counts.
HasAddedOrDeleted(modified_lines) ==
    modified_lines.added # <<>> \/ modified_lines.deleted # <<>>

\* Line 129: modified_lines.get("added") is a non-empty list.
HasAdded(modified_lines) == modified_lines.added # <<>>

generate_extract_prompt(in) ==
    LET prefix_str == [cve_id |-> in.cve_id, code_before |-> in.code_before,
                       cve_description |-> in.cve_description]
    IN [purpose_prompt |-> [prefix |-> prefix_str, ask |-> "purpose"],
        function_prompt |-> [prefix |-> prefix_str, ask |-> "functions"],
        analysis_prompt |->
            [prefix |-> prefix_str,
             delta |-> in.modified_lines,
             after |-> IF HasAdded(in.modified_lines)
                       THEN <<in.code_after>> ELSE <<>>,
             ask |-> "why_necessary"],
        knowledge_extraction_prompt |-> "knowledge_extraction"]

BuildPrompts ==
    /\ call.fn = "generate_extract_prompt"
    /\ ~call.returned
    /\ call' = [call EXCEPT !.returned = TRUE,
                            !.ret = generate_extract_prompt(call.arg)]
    /\ UNCHANGED pipelineVars

SpecPrompt ==
    InitCall("generate_extract_prompt", PromptInputs) /\ [][BuildPrompts]_vars

\* ------------------------------------------------- derived observations
\* Identifiers of the input items.
InputIds == {data[k].id : k \in Idx}

\* Identifiers a resuming run finds in the prior output.
PriorIds == IF args.resume /\ prior.exists THEN RecordIds(prior.recs) ELSE {}

\* The buffer a run starts from.
InitialBuffer == IF args.resume /\ prior.exists THEN prior.recs ELSE <<>>

\* Every invocation made for item k failed, and there was one.
FailsEveryCall(k) == hist[k].anyFail /\ ~hist[k].anyOk

\* No invocation made for item k failed, all four stages returned and the
\* stage-4 text parses.
SucceedsEveryCall(k) == ~hist[k].anyFail /\ Parses(wk[k].text)

\* The generation capability was invoked for item k.
Invoked(k) == hist[k].anyFail \/ hist[k].anyOk

\* Item k lacks one of the keys it is read by.
Malformed(k) == data[k].keys # Keys

\* Worker k is between the start of its append and the end of its write
\* (it has entered the with-block of line 268 and not yet left it).
InCritical(k) ==
    wk[k].pc \in {"append", "file_lock", "open", "dump", "release", "release_out"}

\* Work items whose record has been appended to the buffer.
Appended == {k \in Idx : \/ wk[k].pc \in {"file_lock", "open", "dump", "release",
                                          "release_out"}
                          \/ wk[k].outcome \in {"recorded", "write_failed"}}

\* Lines 338-339, what a completed run reports: one count, the length of
\* the buffer, printed as "Processed <n> items"; the function returns nothing.
CompletionReport == [counts |-> {"processed"}, processed |-> Len(output_data)]

\* Work items this run recorded, and those it skipped (resumed or failed).
RecordedByRun == {k \in Idx : wk[k].outcome = "recorded"}

SkippedByRun ==
    {k \in Idx : wk[k].outcome \in {"resumed", "gen_failed", "parse_failed",
                                    "malformed"}}

\* ---------------------------------------------------------------- claims

\* C1. Partial failure isolation: whenever the generation capability fails
\* every call made for a record A and succeeds on every call made for a record
\* B whose stage-4 text parses, the run does not raise, and once it has
\* completed the persisted output is a well-formed array that holds B's record
\* and no record of A.
C1_PartialFailureIsolation ==
    /\ mainPc # "raised"
    /\ \A k \in Idx : future[k] \notin {"raised", "cancelled"}
    /\ mainPc = "complete" =>
         \A a \in Idx, b \in Idx :
            FailsEveryCall(a) /\ SucceedsEveryCall(b) =>
               /\ file.exists /\ file.wellformed
               /\ data[b].id \in RecordIds(file.recs)
               /\ data[a].id \notin RecordIds(file.recs)
               /\ wk[a].outcome = "gen_failed"
               /\ wk[b].outcome = "recorded"

C1_Witness ==
    /\ mainPc = "complete"
    /\ args.retry_time = MaxRetry
    /\ \E a \in Idx, b \in Idx :
          /\ FailsEveryCall(a) /\ SucceedsEveryCall(b)
          /\ data[b].id \in RecordIds(file.recs)

\* C2. Resume exclusion: an input change whose identifier is among those of
\* the prior output a run resumes from causes no generation call and never
\* enters the append-and-flush section (so it causes no flush); and when the
\* run has completed, the generation capability has been invoked for every
\* input change whose identifier is not among them.
C2_ResumeExclusion ==
    /\ \A k \in Idx :
          data[k].id \in PriorIds =>
             /\ ~Invoked(k)
             /\ hist[k].ncalls = 0
             /\ wk[k].pc \in {"idle", "done"}
             /\ wk[k].outcome \in {"None", "resumed"}
             /\ k \notin Appended
    /\ flushes = Cardinality({k \in Idx : wk[k].pc \in {"release", "release_out"}
                                           \/ wk[k].outcome = "recorded"})
    /\ mainPc = "complete" =>
          \A k \in Idx :
             /\ data[k].id \notin PriorIds => Invoked(k)
             /\ data[k].id \in PriorIds => wk[k].outcome = "resumed"

C2_Witness ==
    /\ mainPc = "complete"
    /\ args.resume
    /\ \E x \in Idx, y \in Idx :
          /\ data[x].id \in PriorIds /\ wk[x].outcome = "resumed"
          /\ data[y].id \notin PriorIds /\ wk[y].outcome = "recorded"

\* C3. Retry ceiling on exhaustion: while no call made for a record has
\* succeeded the record is still in its first stage and at most retry_time
\* calls have been made for it; when every call made for it has failed and its
\* work item has ended, exactly retry_time calls were made, all for stage 1,
\* and the record was skipped: it is not in the buffer.
C3_RetryCeilingOnExhaustion ==
    \A k \in Idx :
       /\ ~hist[k].anyOk =>
             /\ hist[k].ncalls <= args.retry_time
             /\ wk[k].stage <= 1
       /\ (wk[k].pc = "done" /\ FailsEveryCall(k)) =>
             /\ hist[k].ncalls = args.retry_time
             /\ hist[k].nfails = args.retry_time
             /\ wk[k].stage = 1
             /\ wk[k].outcome = "gen_failed"
             /\ k \notin Appended
             /\ Len(output_data) = Len(InitialBuffer) + Cardinality(Appended)

C3_Witness ==
    \E k \in Idx :
       /\ args.retry_time = MaxRetry
       /\ wk[k].pc = "done" /\ FailsEveryCall(k)
       /\ hist[k].ncalls = MaxRetry

\* C4. Retry success within the ceiling: a failure of the capability is
\* surfaced only after retry_time failures of one stage; a stage in which
\* f < retry_time invocations have been made, all failed, goes on to
\* invocation f + 1, so a stage that succeeds after retry_time - 1 failures
\* returns on exactly its retry_time-th invocation; and a record whose four
\* stages each returned that way, with a stage-4 text that parses, is recorded
\* and flushed.
C4_RetrySuccessWithinCeiling ==
    \A k \in Idx :
       /\ wk[k].outcome = "gen_failed" => hist[k].nfails = args.retry_time
       /\ hist[k].nfails < args.retry_time => wk[k].outcome # "gen_failed"
       /\ wk[k].pc = "gen" =>
             /\ hist[k].ncalls = hist[k].nfails
             /\ hist[k].ncalls = wk[k].attempt
             /\ hist[k].nfails <= args.retry_time - 1
       /\ (wk[k].pc = "done" /\ hist[k].anyOk /\ hist[k].hard
             /\ Parses(wk[k].text)) =>
             /\ wk[k].outcome = "recorded"
             /\ data[k].id \in RecordIds(lastFlush)

C4_Witness ==
    \E k \in Idx :
       /\ args.retry_time = MaxRetry
       /\ wk[k].pc = "done" /\ wk[k].outcome = "recorded"
       /\ hist[k].hard /\ hist[k].anyFail
       /\ data[k].id \in RecordIds(file.recs)

\* C5. Buffer consistency under concurrency: the array written by every
\* flush is well formed, holds the initial buffer and exactly one record per
\* flush made so far, with no identifier twice; and when a run over at least
\* one record, in which every call succeeded with a stage-4 text that parses
\* and every resumed identifier is an input identifier, has completed, the
\* persisted output holds exactly one record per input identifier.
NoDuplicateIds(recs) ==
    \A i \in 1..Len(recs), j \in 1..Len(recs) : recs[i].id = recs[j].id => i = j

AllSucceed ==
    \A k \in Idx : ~hist[k].anyFail /\ (Invoked(k) => Parses(wk[k].text))

C5_BufferConsistency ==
    /\ flushes > 0 =>
          /\ Len(lastFlush) = Len(InitialBuffer) + flushes
          /\ IsPrefix(InitialBuffer, lastFlush)
          /\ NoDuplicateIds(lastFlush)
          /\ RecordIds(lastFlush) \subseteq
                RecordIds(InitialBuffer) \cup {data[k].id : k \in Appended}
          /\ file.wellformed => file.recs = lastFlush
    /\ (mainPc = "complete" /\ Len(data) >= 1 /\ AllSucceed
          /\ PriorIds \subseteq InputIds) =>
          /\ file.exists /\ file.wellformed
          /\ Len(file.recs) = Len(data)
          /\ RecordIds(file.recs) = InputIds
          /\ NoDuplicateIds(file.recs)

C5_Witness ==
    /\ mainPc = "complete"
    /\ Len(data) = MaxItems
    /\ args.thread_pool_size = MaxWorkers
    /\ ~args.resume
    /\ AllSucceed
    /\ flushes = MaxItems
    /\ Len(file.recs) = MaxItems

\* C6. Mutual exclusion of append-and-flush: no two workers are at once
\* between the start of their append and the end of their write; a worker
\* there holds output_lock, and holds file_lock too while the target is open;
\* so while one worker opens and writes, no other worker is appending.
C6_MutualExclusion ==
    /\ \A k1 \in Idx, k2 \in Idx :
          InCritical(k1) /\ InCritical(k2) => k1 = k2
    /\ \A k \in Idx :
          /\ InCritical(k) => output_lock = k
          /\ wk[k].pc \in {"open", "dump", "release"} => file_lock = k
          /\ wk[k].pc \in {"dump"} =>
                \A j \in Idx \ {k} : wk[j].pc \notin {"append", "open", "dump"}
    /\ output_lock # 0 => InCritical(output_lock)
    /\ file_lock # 0 => file_lock = output_lock

C6_Witness ==
    \E k1 \in Idx, k2 \in Idx :
       /\ k1 # k2
       /\ wk[k1].pc = "dump"
       /\ wk[k2].pc = "lock"

\* C7. Crash recovery point: when the process is killed, at whatever point
\* of the run, a persistence target that existed before the run or was
\* flushed during it holds a complete, well-formed array equal to the content
\* of the last flush that completed.
C7_CrashRecoveryPoint ==
    (killed /\ (prior.exists \/ flushes > 0)) =>
        /\ file.exists
        /\ file.wellformed
        /\ file.recs = lastFlush

\* C8. Resume preserves prior records: in a run that resumes from a prior
\* output P, the buffer equals P until the first append, and P is a prefix of
\* the buffer, of every array flushed and of the persisted output ever after.
C8_ResumePreservesPrior ==
    (args.resume /\ prior.exists /\ mainPc \notin {"start", "exit"}) =>
        /\ IsPrefix(prior.recs, output_data)
        /\ Appended = {} => output_data = prior.recs
        /\ IsPrefix(prior.recs, lastFlush)
        /\ file.wellformed => IsPrefix(prior.recs, file.recs)
        /\ mainPc = "complete" =>
              /\ file.exists /\ file.wellformed
              /\ IsPrefix(prior.recs, file.recs)

C8_Witness ==
    /\ mainPc = "complete"
    /\ args.resume /\ prior.exists
    /\ Len(prior.recs) >= 1
    /\ flushes >= 1
    /\ \E k \in Idx : wk[k].outcome \in {"gen_failed", "parse_failed"}
    /\ IsPrefix(prior.recs, file.recs)
    /\ Len(file.recs) > Len(prior.recs)

\* C9. No per-record failure aborts the run: whatever records fail with a
\* generation failure, a parse failure or a missing field (its identifier and
\* its CVE tag included), no exception reaches the main thread, no work item
\* ends with an exception or is cancelled, and in a completed or ended run
\* every input record has been passed to a worker and resolved.
C9_NoFailureAbortsRun ==
    /\ mainPc # "raised"
    /\ \A k \in Idx : future[k] \notin {"raised", "cancelled"}
    /\ (Exited /\ mainPc # "exit") => \A k \in Idx : future[k] = "finished"

\* C10. Malformed input is rejected before generation: for a record that
\* lacks one of its required keys no generation call is ever issued, its
\* worker never enters the append-and-flush section, and the buffer holds
\* nothing but the initial buffer and the records of the workers that did.
C10_MalformedRejectedBeforeGeneration ==
    /\ \A k \in Idx :
          Malformed(k) =>
             /\ ~Invoked(k)
             /\ hist[k].ncalls = 0
             /\ wk[k].pc \in {"idle", "done"}
             /\ wk[k].outcome \in {"None", "malformed", "raised", "resumed"}
             /\ k \notin Appended
    /\ mainPc \notin {"start", "exit"} =>
          Len(output_data) = Len(InitialBuffer) + Cardinality(Appended)
    /\ flushes <= Cardinality({k \in Idx : ~Malformed(k)})

C10_Witness ==
    \E k \in Idx, j \in Idx :
       /\ Malformed(k)
       /\ HasKey(data[k], "id") /\ HasKey(data[k], "cve_id")
       /\ wk[k].pc = "done" /\ wk[k].outcome = "malformed"
       /\ wk[j].outcome = "recorded"

\* C11. Terminal state: a run whose threads keep being scheduled and whose
\* generation calls each return or fail eventually ends, completed or, when
\* the generation client could not be initialised, by its exit before
\* scheduling; and in a completed run every input change is resolved: skipped because its
\* identifier was in the resume set, recorded in the buffer, or skipped on a
\* generation or parse failure, with no work item left pending or running.
Resolved(k) ==
    /\ future[k] = "finished"
    /\ wk[k].pc = "done"
    /\ \/ wk[k].outcome = "resumed" /\ data[k].id \in resume_set
       \/ wk[k].outcome = "recorded" /\ data[k].id \in RecordIds(output_data)
       \/ wk[k].outcome \in {"gen_failed", "parse_failed"}

ParseFailed(k) == wk[k].text = "not_json"

C12_ParseFailureIsSkip ==
    /\ [](\A k \in Idx :
            ParseFailed(k) =>
               /\ wk[k].pc = "done"
               /\ wk[k].outcome = "parse_failed"
               /\ wk[k].stage = NumStages
               /\ hist[k].ncalls = 0
               /\ future[k] = "finished"
               /\ k \notin Appended
               /\ data[k].id \notin RecordIds(output_data)
               /\ flushes > 0 => data[k].id \notin RecordIds(lastFlush))
    /\ [][\A k \in Idx :
            ParseFailed(k) => /\ wk'[k] = wk[k]
                              /\ hist'[k] = hist[k]
                              /\ future'[k] = future[k]]_vars

C12_Witness ==
    /\ mainPc = "complete"
    /\ \E k \in Idx, j \in Idx :
          /\ ParseFailed(k) /\ wk[k].outcome = "parse_failed"
          /\ hist[k].anyFail
          /\ wk[j].outcome = "recorded"

\* C13. Records are never partially constructed: every record assembled for
\* the buffer carries every field of a knowledge record (identifier, CVE
\* reference, purpose, function, analysis, the three vulnerability-behaviour
\* fields, solution, before, after, line delta), and a field the decoded
\* stage-4 object lacks (solution, or a vulnerability-behaviour sub-field) is
\* present with the empty string as its value.
RecordFields ==
    {"id", "CVE_id", "purpose", "function", "analysis", "solution",
     "code_before_change", "code_after_change", "modified_lines"} \cup VbFields

C13_NeverPartiallyConstructed ==
    (Returned("assemble") /\ ~call.ret.raised) =>
        /\ RecordFields \subseteq call.ret.present
        /\ \A f \in VbFields :
              (call.arg.vb.kind = "absent" \/ f \notin call.arg.vb.keys)
                 => f \in call.ret.empty
        /\ (~call.arg.solution /\ "solution" \notin call.arg.vb.keys)
              => "solution" \in call.ret.empty

\* C14. Initialization failure is the only run-aborting condition: a run
\* that exits because the generation client could not be initialised has
\* scheduled nothing, made no generation call and left the persistence target
\* as it found it; and no run ends any other way than by completing: no
\* exception reaches the main thread and no work item is cancelled.
C14_InitFailureOnlyAbort ==
    /\ mainPc = "exit" =>
          /\ \A k \in Idx : /\ future[k] = "unsubmitted"
                             /\ wk[k] = IdleWk
                             /\ hist[k] = NoHist
          /\ output_data = <<>>
          /\ flushes = 0
          /\ file = prior
    /\ mainPc # "raised"
    /\ \A k \in Idx : future[k] \notin {"raised", "cancelled"}

\* C15. Reported counts: a completed run reports a processed count equal to
\* the number of input changes it recorded and a skipped count equal to the
\* number of input changes it skipped, in resumed runs as in fresh ones.
C15_ReportedCounts ==
    mainPc = "complete" =>
        /\ CompletionReport.processed = Cardinality(RecordedByRun)
        /\ "skipped" \in CompletionReport.counts

\* C16. Diff parsing of a single hunk: for the diff made of the header
\* @@ -10,3 +10,4 @@ followed by one context line, one deletion, one addition
\* and one context line, the parser yields deleted = <<11>> and added = <<11>>
\* (the context line after the header is line 10 of both files), ends with
\* both cursors at 13, and a second call on the same text yields the same.
SingleHunkDiff ==
    <<DiffLine("hunk", 10, 10), DiffLine("ctx", 0, 0), DiffLine("del", 0, 0),
      DiffLine("add", 0, 0), DiffLine("ctx", 0, 0)>>

C16_SingleHunk ==
    (Returned("parse_diff_for_modified_lines") /\ call.arg = SingleHunkDiff) =>
        /\ \A c \in 1..Len(call.ret) :
              /\ call.ret[c].deleted_lines = <<11>>
              /\ call.ret[c].added_lines = <<11>>
              /\ call.ret[c].current_old_line = 13
              /\ call.ret[c].current_new_line = 13
        /\ \A c \in 1..Len(call.ret) : call.ret[c] = call.ret[1]

C16_Witness ==
    /\ Returned("parse_diff_for_modified_lines")
    /\ call.arg = SingleHunkDiff
    /\ Len(call.ret) = 2
    /\ call.ret[2].deleted_lines = <<11>>

\* C16 as first stated: for that diff the parser yields deleted = <<10>> and
\* added = <<11>> with final cursors old = 12 and new = 13, twice.
C16_AsStated ==
    (Returned("parse_diff_for_modified_lines") /\ call.arg = SingleHunkDiff) =>
        \A c \in 1..Len(call.ret) :
           /\ call.ret[c].deleted_lines = <<10>>
           /\ call.ret[c].added_lines = <<11>>
           /\ call.ret[c].current_old_line = 12
           /\ call.ret[c].current_new_line = 13

\* C17. Empty diff: parsing the empty text returns an empty added list and an
\* empty deleted list.
C17_EmptyDiff ==
    (Returned("parse_diff_for_modified_lines") /\ call.arg = <<>>) =>
        \A c \in 1..Len(call.ret) :
           /\ call.ret[c].added_lines = <<>>
           /\ call.ret[c].deleted_lines = <<>>

C17_Witness ==
    /\ Returned("parse_diff_for_modified_lines")
    /\ call.arg = <<>>
    /\ Len(call.ret) >= 1
    /\ call.ret[1].added_lines = <<>>

\* C18. Tolerant JSON extraction: for a response text made of prose, then
\* one valid JSON object, then prose (as in: Sure! {"solution": "do X"}
\* Thanks.), the decoder of the pipeline and safe_json_loads both return that
\* object, with its solution; and a decoder fails only when neither the whole
\* text nor the part from the first opening brace to the last closing brace
\* decodes.
Embedded(t) ==
    LET start == FindFirst(t, {"{"})
        end == FindLast(t, {"}"})
    IN IF start # 0 /\ end > start
          /\ \A j \in 1..Len(t) : (j < start \/ j > end) => t[j] = "txt"
       THEN JsonLoads(SubSeq(t, start, end))
       ELSE [ok |-> FALSE, obj |-> NoObject]

BothDecodesFail(t) ==
    /\ ~JsonLoads(t).ok
    /\ LET start == FindFirst(t, {"{"})
           end == FindLast(t, {"}"})
       IN ~(start # 0 /\ end > start /\ JsonLoads(SubSeq(t, start, end)).ok)

C18_TolerantExtraction ==
    (Returned("parse_vulnerability_knowledge") \/ Returned("safe_json_loads")) =>
        /\ Embedded(call.arg).ok =>
              /\ call.ret.ok
              /\ call.ret.obj = Embedded(call.arg).obj
        /\ ~call.ret.ok => BothDecodesFail(call.arg)

\* C19. Conditional after-block in stage 3: the analysis prompt built for a
\* change shows the change's after text, once, if and only if its list of
\* added lines is not empty; a deletion-only change and a change with both
\* lists empty get a prompt without the after block; and the line delta is
\* embedded in every analysis prompt, whole.
C19_ConditionalAfterBlock ==
    Returned("generate_extract_prompt") =>
        LET ml == call.arg.modified_lines
            ap == call.ret.analysis_prompt
        IN /\ ml.added # <<>> => ap.after = <<call.arg.code_after>>
           /\ ml.added = <<>> => ap.after = <<>>
           /\ (ml.added = <<>> /\ ml.deleted # <<>>) => Len(ap.after) = 0
           /\ ap.delta = ml

C19_Witness ==
    /\ Returned("generate_extract_prompt")
    /\ call.arg.modified_lines.added = <<>>
    /\ call.arg.modified_lines.deleted = <<3, 7>>
    /\ call.arg.code_after = "A1"
    /\ call.ret.analysis_prompt.after = <<>>
    /\ call.ret.analysis_prompt.delta.deleted = <<3, 7>>

\* C20. Stage ordering within a record: the generation calls of a record
\* are issued in stage order 1, 2, 3, 4: the stage of a call is that of the
\* call before it or the next one, and the first call of a stage is issued
\* only when every earlier stage has returned its output (so stage 4 is never
\* called before the output of stage 3 exists); and once a stage has
\* exhausted its retries no call is issued for the record any more.
C20_StageOrdering ==
    /\ [](\A k \in Idx :
            /\ hist[k].issued \in 0..NumStages
            /\ hist[k].issued <= hist[k].responses + 1
            /\ hist[k].responses <= hist[k].issued
            /\ hist[k].issued = NumStages => hist[k].responses >= NumStages - 1
            /\ wk[k].outcome = "gen_failed" =>
                  /\ hist[k].issued = hist[k].responses + 1
                  /\ wk[k].pc = "done")
    /\ [][\A k \in Idx :
            /\ hist'[k].issued \in {hist[k].issued, hist[k].issued + 1}
            /\ hist'[k].issued = hist[k].issued + 1 =>
                  hist[k].responses = hist[k].issued
            /\ hist'[k].responses \in {hist[k].responses, hist[k].responses + 1}
            /\ wk[k].outcome = "gen_failed" =>
                  /\ hist'[k] = hist[k]
                  /\ wk'[k] = wk[k]]_vars

C20_Witness ==
    \E k \in Idx, j \in Idx :
       /\ hist[k].issued = NumStages /\ hist[k].responses = NumStages
       /\ hist[k].anyFail
       /\ wk[j].outcome = "gen_failed"
       /\ hist[j].issued = 3 /\ hist[j].responses = 2

\* C21. Conversation accumulation: every call of stage 1 and of stage 2
\* carries one user turn, that stage's prompt; every call of stage 3, retries
\* included, carries exactly the stage-3 prompt; every call of stage 4,
\* retries included, carries exactly the stage-3 prompt, the stage-3 response
\* as the assistant turn and the stage-4 prompt, each once and nothing of
\* stages 1 and 2.
Turn(role, content) == [role |-> role, content |-> content]

ConversationOf(stage) ==
    IF stage = 1 THEN <<Turn("user", "purpose_prompt")>>
    ELSE IF stage = 2 THEN <<Turn("user", "function_prompt")>>
    ELSE IF stage = 3 THEN <<Turn("user", "analysis_prompt")>>
    ELSE <<Turn("user", "analysis_prompt"),
           Turn("assistant", "analysis_output"),
           Turn("user", "knowledge_extraction_prompt")>>

C21_ConversationAccumulation ==
    \A k \in Idx :
       hist[k].issued >= 1 => hist[k].conv = ConversationOf(hist[k].issued)

C21_Witness ==
    \E k \in Idx :
       /\ hist[k].issued = NumStages
       /\ hist[k].ncalls >= 2
       /\ wk[k].outcome = "gen_failed"
       /\ Len(hist[k].conv) = 3

\* C22. The lock is never held across a generation call: a worker that holds
\* the output lock (or the file lock) is not in generate_with_retry, in a
\* call or in a retry delay, and has no call left to make for its record, all
\* four responses being there; so a worker waiting for the lock never waits
\* for a worker that is generating.
C22_NoLockAcrossGeneration ==
    /\ \A k \in Idx :
          (output_lock = k \/ file_lock = k) =>
             /\ wk[k].pc # "gen"
             /\ wk[k].attempt = 0
             /\ hist[k].responses = NumStages
    /\ \A k \in Idx : wk[k].pc = "gen" => output_lock # k /\ file_lock # k
    /\ \A j \in Idx :
          (wk[j].pc = "lock" /\ output_lock # 0) => wk[output_lock].pc # "gen"

C22_Witness ==
    \E j, k \in Idx :
       /\ j # k
       /\ output_lock = k
       /\ wk[j].pc = "gen" /\ wk[j].attempt >= 1

\* C23. Buffer equals last flush: whenever the run has loaded its inputs and
\* no worker is inside the append-and-flush critical section, the target
\* holds exactly the records of the buffer (a target that does not exist
\* holding none), in fresh and in resumed runs, with or without an earlier
\* output, and after failed writes.  The code does not keep this.
C23_BufferEqualsTarget ==
    (/\ mainPc \notin {"start", "exit"}
     /\ \A k \in Idx : ~InCritical(k))
    => IF file.exists
       THEN file.wellformed /\ file.recs = output_data
       ELSE output_data = <<>>

\* The same after a write has failed: the record of the failed write stays
\* in the buffer of a run whose target does not hold it.
C23_AfterFailedWrite ==
    \A k \in Idx :
       (/\ wk[k].outcome = "write_failed"
        /\ \A j \in Idx : ~InCritical(j))
       => /\ data[k].id \in RecordIds(output_data) => data[k].id \in RecordIds(file.recs)
          /\ file.recs = output_data

\* C24. Failure propagation of the retry wrapper: when every attempt of a
\* stage has failed, the error generate_with_retry raises is that of the last
\* attempt; while attempts remain nothing is raised and the work item is
\* still running, the errors so far being only printed; one delay has been
\* waited after each failed attempt that another attempt follows, and none
\* after the final failed attempt.
C24_RetryFailurePropagation ==
    \A k \in Idx :
       /\ wk[k].outcome = "gen_failed" =>
             /\ hist[k].nfails = args.retry_time
             /\ hist[k].raised = args.retry_time
             /\ hist[k].lastErr = args.retry_time
             /\ hist[k].sleeps = args.retry_time - 1
       /\ wk[k].pc = "gen" =>
             /\ hist[k].raised = 0
             /\ hist[k].lastErr = wk[k].attempt
             /\ hist[k].sleeps = wk[k].attempt
             /\ future[k] = "running"

C24_Witness ==
    \E k \in Idx :
       /\ wk[k].outcome = "gen_failed"
       /\ args.retry_time >= 2
       /\ hist[k].raised = args.retry_time
       /\ hist[k].sleeps = args.retry_time - 1

\* C25. Line-number monotonicity: in the scan of any diff text, a line that
\* is not a matching hunk header lowers no cursor; an added line leaves the
\* old cursor where it is and a deleted line leaves the new cursor where it
\* is; and of two numbers put into added (or into deleted) with no matching
\* hunk header between them, the later is not the smaller.
NoHeaderBetween(lines, i, j) ==
    \A m \in (i + 1)..(j - 1) : lines[m].kind # "hunk"

MonotoneScan(lines) ==
    LET tr == ScanTrace(lines, 1, DiffLocals)
    IN /\ \A i \in 1..Len(lines) :
             /\ lines[i].kind # "hunk" =>
                   /\ tr[i + 1].current_old_line >= tr[i].current_old_line
                   /\ tr[i + 1].current_new_line >= tr[i].current_new_line
             /\ lines[i].kind = "add" =>
                   /\ tr[i + 1].current_old_line = tr[i].current_old_line
                   /\ tr[i + 1].added_lines =
                         Append(tr[i].added_lines, tr[i].current_new_line)
             /\ lines[i].kind = "del" =>
                   /\ tr[i + 1].current_new_line = tr[i].current_new_line
                   /\ tr[i + 1].deleted_lines =
                         Append(tr[i].deleted_lines, tr[i].current_old_line)
       /\ \A i, j \in 1..Len(lines) :
             (i < j /\ NoHeaderBetween(lines, i, j)) =>
                /\ (lines[i].kind = "add" /\ lines[j].kind = "add") =>
                      tr[i].current_new_line <= tr[j].current_new_line
                /\ (lines[i].kind = "del" /\ lines[j].kind = "del") =>
                      tr[i].current_old_line <= tr[j].current_old_line

C25_LineNumberMonotonicity ==
    Returned("parse_diff_for_modified_lines") =>
        /\ MonotoneScan(call.arg)
        /\ call.ret[1] = ScanTrace(call.arg, 1, DiffLocals)[Len(call.arg) + 1]

C25_Witness ==
    /\ Returned("parse_diff_for_modified_lines")
    /\ call.arg = <<DiffLine("hunk", 10, 10), DiffLine("add", 0, 0),
                    DiffLine("del", 0, 0), DiffLine("add", 0, 0),
                    DiffLine("hunk", 3, 5)>>
    /\ call.ret[1].added_lines = <<10, 11>>
    /\ call.ret[1].current_new_line = 5

\* C26. No hunks means empty result: for a diff text without a matching hunk
\* header, whatever its other lines (added and deleted lines, malformed @@
\* lines), the parser returns an empty added list and an empty deleted list.
\* The code does not keep this.
C26_NoHunksEmptyResult ==
    (/\ Returned("parse_diff_for_modified_lines")
     /\ \A i \in 1..Len(call.arg) : call.arg[i].kind # "hunk")
    => /\ call.ret[1].added_lines = <<>>
       /\ call.ret[1].deleted_lines = <<>>

\* C28. Line numbers are the true file positions: for a well-formed unified
\* diff, the parser's added list is the list of the positions of the added
\* lines in the new file, its deleted list that of the deleted lines in the
\* old file, and every number is positive, whatever the content of the
\* lines.  The code does not keep this.
\* Before the first hunk a well-formed diff has only file-header and other
\* heading lines; in a hunk, a line is told by its first character alone: a
\* line that starts with + is an added line and one that starts with - is a
\* deleted line also when what follows is ++ or --, and the marker
\* "\ No newline at end of file" stands for no line of either file.
WellFormedDiff(lines) ==
    /\ \E i \in 1..Len(lines) : lines[i].kind = "hunk"
    /\ \A i \in 1..Len(lines) :
          /\ lines[i].kind # "hunk_bad"
          /\ (\A m \in 1..(i - 1) : lines[m].kind # "hunk") =>
                lines[i].kind \in {"hunk", "ctx", "add_header", "del_header"}
          /\ lines[i].kind = "nonl" =>
                i > 1 /\ lines[i - 1].kind \in {"ctx", "add", "del",
                                                "add_header", "del_header"}

RECURSIVE TruePositions(_, _, _, _)
TruePositions(lines, i, inHunk, st) ==
    IF i > Len(lines) THEN st
    ELSE LET kd == lines[i].kind
         IN TruePositions(lines, i + 1, inHunk \/ kd = "hunk",
               IF kd = "hunk"
               THEN [st EXCEPT !.current_old_line = lines[i].old,
                               !.current_new_line = lines[i].new]
               ELSE IF ~inHunk \/ kd = "nonl" THEN st
               ELSE IF kd \in {"add", "add_header"}
               THEN [st EXCEPT !.added_lines = Append(@, st.current_new_line),
                               !.current_new_line = @ + 1]
               ELSE IF kd \in {"del", "del_header"}
               THEN [st EXCEPT !.deleted_lines = Append(@, st.current_old_line),
                               !.current_old_line = @ + 1]
               ELSE [st EXCEPT !.current_old_line = @ + 1,
                               !.current_new_line = @ + 1])

C28_TruePositions ==
    (Returned("parse_diff_for_modified_lines") /\ WellFormedDiff(call.arg)) =>
        LET truth == TruePositions(call.arg, 1, FALSE, DiffLocals)
        IN /\ call.ret[1].added_lines = truth.added_lines
           /\ call.ret[1].deleted_lines = truth.deleted_lines
           /\ \A n \in 1..Len(call.ret[1].added_lines) :
                 call.ret[1].added_lines[n] > 0
           /\ \A n \in 1..Len(call.ret[1].deleted_lines) :
                 call.ret[1].deleted_lines[n] > 0

\* C27. Input fields are copied verbatim and cannot be overridden by
\* generated text: in every assembled record the identifier, the CVE
\* reference, the before text, the after text and the line delta are those of
\* the input item and the analysis is the stage-3 response, whichever of
\* these keys the decoded stage-4 object holds itself.
C27_InputFieldsVerbatim ==
    (Returned("assemble") /\ ~call.ret.raised) =>
        /\ call.ret.values["id"] = "item.id"
        /\ call.ret.values["CVE_id"] = call.arg.cve
        /\ call.ret.CVE_id = call.arg.cve
        /\ call.ret.values["code_before_change"] = "item.code_before_change"
        /\ call.ret.values["code_after_change"] = "item.code_after_change"
        /\ call.ret.values["modified_lines"] = "item.function_modified_lines"
        /\ call.ret.values["analysis"] = "analysis_output"
        /\ CopiedKeys \subseteq call.ret.present

C27_Witness ==
    /\ Returned("assemble")
    /\ ~call.ret.raised
    /\ call.arg.clash = CopiedKeys
    /\ call.ret.values["id"] = "item.id"
    /\ call.ret.values["analysis"] = "analysis_output"

\* C29. Flushes grow monotonically: in one run every recorded work item has
\* caused exactly one flush and a skipped or failed one none; every flush
\* writes the array of the flush before it (the initial buffer, for the first
\* flush of the run) with exactly one record appended at the end, that of the
\* worker that flushes; so what a flush of the run has written stays a prefix
\* of what later flushes write.  The code keeps this in runs whose writes
\* all succeed and not in a run in which a write has failed.
FlushedBefore == IF flushes = 0 THEN InitialBuffer ELSE lastFlush

FlushStep ==
    \E k \in Idx :
       /\ wk[k].pc = "dump" /\ wk'[k].pc = "release"
       /\ flushes' = flushes + 1
       /\ lastFlush' = Append(FlushedBefore, KnowledgeRecord(data[k].id))
       /\ file'.recs = lastFlush' /\ file'.wellformed
       /\ flushes > 0 => IsPrefix(lastFlush, lastFlush')

NoFlushStep ==
    /\ UNCHANGED <<lastFlush, flushes>>
    /\ \A k \in Idx :
          (wk[k].outcome # wk'[k].outcome
           /\ wk'[k].outcome \in {"resumed", "gen_failed", "parse_failed",
                                   "write_failed"})
          => UNCHANGED <<file, output_data>>

FlushCount ==
    /\ flushes = Cardinality({k \in Idx :
                                 \/ wk[k].outcome = "recorded"
                                 \/ /\ wk[k].pc \in {"release", "release_out"}
                                    /\ wk[k].last_exception = "None"})
    /\ \A k \in Idx :
          (flushes > 0
           /\ wk[k].outcome \in {"resumed", "gen_failed", "parse_failed",
                                  "write_failed"}) =>
             data[k].id \notin RecordIds(lastFlush) \ PriorIds

C29_FlushesGrowMonotonically ==
    /\ [](mainPc \notin {"start", "exit"} => FlushCount)
    /\ [][FlushStep \/ NoFlushStep]_vars

\* C30. Deadlock freedom of the two locks: a worker holds file_lock only
\* while it holds output_lock (output_lock is taken first and released last),
\* also when its write has raised; a worker outside the with-blocks holds no
\* lock, in particular one whose write failed; and in no state are all
\* unfinished workers waiting for a lock.
Unfinished == {k \in Idx : wk[k].pc \notin {"idle", "done"}}

Blocked(k) ==
    \/ wk[k].pc = "lock" /\ ~CanAcquire(output_lock)
    \/ wk[k].pc = "file_lock" /\ ~CanAcquire(file_lock)

C30_TwoLockDeadlockFreedom ==
    /\ file_lock # 0 => output_lock = file_lock
    /\ \A k \in Idx :
          /\ wk[k].pc \in {"append", "file_lock", "release_out"} =>
                output_lock = k /\ file_lock # k
          /\ wk[k].pc \in {"open", "dump", "release"} =>
                output_lock = k /\ file_lock = k
          /\ wk[k].pc \in {"idle", "gen", "lock", "done"} =>
                output_lock # k /\ file_lock # k
          /\ wk[k].outcome = "write_failed" =>
                wk[k].pc = "done" /\ output_lock # k /\ file_lock # k
    /\ Unfinished # {} => \E k \in Unfinished : ~Blocked(k)

C30_Witness ==
    \E j, k \in Idx :
       /\ wk[k].outcome = "write_failed"
       /\ wk[j].outcome = "recorded"
       /\ flushes = 1
       /\ lastFlush = <<KnowledgeRecord(data[k].id), KnowledgeRecord(data[j].id)>>
       /\ output_lock = 0 /\ file_lock = 0

\* C31. Resumed runs are idempotent once everything is recorded: a run that
\* resumes from an output holding the record of every input item makes no
\* generation call and no flush and leaves the target as it found it; the
\* output of a completed run in which every item was recorded or already
\* there is such an output for the run that is invoked next with --resume on
\* the same input; and, more generally, a resumed run attempts exactly the
\* items whose record its prior output lacks.
Attempted(k) == hist[k].issued >= 1

EverythingRecorded ==
    \A k \in Idx : wk[k].outcome \in {"recorded", "resumed"}

ResumedRun ==
    /\ args.resume
    /\ prior.exists => prior.wellformed
    /\ mainPc \notin {"start", "exit"}

C31_ResumeInvariant ==
    ResumedRun =>
       /\ \A k \in Idx : Attempted(k) => data[k].id \notin RecordIds(prior.recs)
       /\ mainPc = "complete" =>
             \A k \in Idx :
                Attempted(k) <=> data[k].id \notin RecordIds(prior.recs)
       /\ InputIds \subseteq RecordIds(prior.recs) =>
             /\ \A k \in Idx : ~Attempted(k) /\ ~Invoked(k) /\ k \notin Appended
             /\ flushes = 0
             /\ file = prior
             /\ output_data = prior.recs

C31_ReinvokeStep ==
    (mainPc = "complete" /\ mainPc' = "start") =>
       /\ file' = file /\ data' = data /\ args'.resume
       /\ prior' = file
       /\ EverythingRecorded =>
             /\ Idx # {} => file.exists /\ file.wellformed
             /\ InputIds \subseteq RecordIds(prior'.recs)
       /\ \A k \in Idx :
             wk[k].outcome = "recorded" => data[k].id \in RecordIds(prior'.recs)

C31_ResumeIdempotent ==
    /\ []C31_ResumeInvariant
    /\ [][C31_ReinvokeStep]_vars

\* A second run that has completed on the output of a first run in which two
\* workers recorded item 2 before item 1.
C31_Witness ==
    /\ mainPc = "complete"
    /\ args.resume
    /\ Len(data) = 2
    /\ prior.recs = <<KnowledgeRecord(2), KnowledgeRecord(1)>>
    /\ \A k \in Idx : wk[k].outcome = "resumed" /\ ~Attempted(k)
    /\ flushes = 0 /\ file = prior

====
